---- MODULE Spec2Model ----
(***************************************************************************)
(* The WAL watcher of src/unnamed/part_000 (package client): one           *)
(* background worker (mainLoop -> run -> watch -> readSegment ->           *)
(* decodeAndDispatch), the foreground Start()/Stop(), and the external     *)
(* writer that appends records to the last segment and cuts new segments.  *)
(***************************************************************************)
EXTENDS Integers, Sequences, FiniteSets, TLC

\* ------------------------------------------------------------------ bounds
\* Segment ids the writer may create: 0..MaxSegId.
MaxSegId == 2
\* Records the writer puts in one segment.
MaxRecs == 2
\* Records with a damaged frame or payload in the whole WAL.
MaxFaulty == 1
\* Invocations of run by the main loop.
MaxRuns == 2
\* Series declarations and entry batches of one decoded record.
MaxSeries == 2
MaxEntries == 2

\* ------------------------------------------------------------- error values
\* An error is <<kind, n>>; errors.Wrapf / fmt.Errorf("%w") keep the cause, and
\* the code only ever compares causes, so a wrapped error is its cause.
Nil == <<"nil", 0>>
EOF == <<"EOF", 0>>
CorruptErr == <<"corrupt", 0>>
DecodeErr == <<"decode", 0>>
OpenErr == <<"open", 0>>
DirErr == <<"dir", 0>>
StatErr == <<"stat", 0>>
SeriesErr(i) == <<"series", i>>
EntriesErr(i) == <<"entries", i>>

\* ------------------------------------------------------------ record values
\* A raw record of a segment file: a well-formed record, a record whose frame
\* fails the reader's integrity check, or one whose payload the codec rejects.
OkRec(ns, ne) == [kind |-> "ok", ns |-> ns, ne |-> ne]
CorruptRec == [kind |-> "corrupt", ns |-> 0, ne |-> 0]
UndecodableRec == [kind |-> "undecodable", ns |-> 0, ne |-> 0]
\* Every well-formed record: any number of series and of entry batches.
OkRecords == {OkRec(ns, ne) : ns \in 0..MaxSeries, ne \in 0..MaxEntries}
\* What the writer of the whole-watcher specification appends.
WriterRecords == {OkRec(1, 1), CorruptRec, UndecodableRec}

SegIds == 0..MaxSegId

Range(s) == {s[i] : i \in 1..Len(s)}

SetMax(S) == CHOOSE x \in S : \A y \in S : y <= x
SetMin(S) == CHOOSE x \in S : \A y \in S : x <= y

\* ------------------------------------------------------- directory entries
\* A file name is a sequence of characters.
DigitChars == <<"0", "1", "2", "3", "4", "5", "6", "7", "8", "9">>
IsDigit(c) == \E i \in 1..Len(DigitChars) : DigitChars[i] = c
DigitVal(c) == (CHOOSE i \in 1..Len(DigitChars) : DigitChars[i] = c) - 1

\* The digit loop of strconv.Atoi from position i on, n being the value so far:
\* <<ok, value>>.
RECURSIVE AtoiDigits(_, _, _)
AtoiDigits(name, i, n) ==
    IF i > Len(name) THEN <<TRUE, n>>
    ELSE IF ~IsDigit(name[i]) THEN <<FALSE, 0>>
    ELSE AtoiDigits(name, i + 1, n * 10 + DigitVal(name[i]))

\* strconv.Atoi: an optional sign, then one or more decimal digits.
Atoi(name) ==
    IF Len(name) = 0 THEN <<FALSE, 0>>
    ELSE IF name[1] \in {"+", "-"}
         THEN IF Len(name) = 1 THEN <<FALSE, 0>>
              ELSE LET r == AtoiDigits(name, 2, 0)
                   IN IF name[1] = "-" THEN <<r[1], 0 - r[2]>> ELSE r
    ELSE AtoiDigits(name, 1, 0)

\* The loop over the directory entries: the parsed value of every entry whose
\* name parses, the others skipped.  (Each intermediate result is bound once, as
\* a member of a one-element set.)
RECURSIVE ParsedRefs(_)
ParsedRefs(files) ==
    IF files = {} THEN <<>>
    ELSE CHOOSE refs \in
            {(IF k[1] THEN <<k[2]>> ELSE <<>>) \o rest :
                k \in {Atoi(f) : f \in {CHOOSE x \in files : TRUE}},
                rest \in {ParsedRefs(files \ {CHOOSE x \in files : TRUE})}} : TRUE

\* sort.Ints, by insertion.
RECURSIVE InsertInt(_, _)
InsertInt(k, refs) ==
    IF refs = <<>> THEN <<k>>
    ELSE IF k <= Head(refs) THEN <<k>> \o refs
    ELSE <<Head(refs)>> \o InsertInt(k, Tail(refs))

RECURSIVE SortInts(_)
SortInts(refs) ==
    IF refs = <<>> THEN <<>>
    ELSE CHOOSE out \in {InsertInt(Head(refs), sorted) : sorted \in {SortInts(Tail(refs))}} : TRUE

\* A sequence check that only asks for ascending ids.
Ascending(a, b) == a < b

\* A sequence check that lets equal neighbours pass.
GapAtMostOne(a, b) == b - a <= 1

\* refs[i]+1 != refs[i+1] is the failure
Sequential(a, b) == a + 1 = b

\* segments: the sorted ids, or an error when two neighbours are not sequential
\* or the directory cannot be read.  The result is <<refs, err>>.
segments(files, readable) ==
    IF ~readable THEN <<<<>>, DirErr>>
    ELSE CHOOSE res \in
            {IF \E i \in 1..(Len(refs) - 1) : ~Sequential(refs[i], refs[i + 1])
             THEN <<<<>>, DirErr>>
             ELSE <<refs, Nil>> :
                refs \in {SortInts(parsed) : parsed \in {ParsedRefs(entries) : entries \in {files}}}} : TRUE

\* A firstAndLast that reports the first id as the last one too.
FirstAsLast(refs) == refs[1]

\* refs[len(refs)-1]
LastRef(refs) == refs[Len(refs)]

\* firstAndLast: <<first, last, err>>.
firstAndLast(files, readable) ==
    LET r == segments(files, readable)
    IN IF r[2] # Nil THEN <<-1, -1, r[2]>>
       ELSE IF Len(r[1]) = 0 THEN <<-1, -1, Nil>>
       ELSE <<r[1][1], LastRef(r[1]), Nil>>

\* The name the writer gives segment i: its id in eight digits.
RECURSIVE PadDigits(_, _)
PadDigits(i, width) ==
    IF width = 0 THEN <<>>
    ELSE Append(PadDigits(i \div 10, width - 1), DigitChars[(i % 10) + 1])

SegmentName(i) == PadDigits(i, 8)

\* Entries of the directory that are not segment files written by the writer.
CheckpointName == <<"c", "h", "e", "c", "k", "p", "o", "i", "n", "t", ".", "0">>
OtherNames == {<<"0">>, <<"0", "1">>, <<"+", "1">>, <<"-", "1">>, <<"2", "x">>, <<"-">>,
               CheckpointName}

VARIABLES
    \* the WAL directory (the ids of the writer's segment files and the names of
    \* its other entries) and the contents of the segment files
    dirSegs, dirOther, segs,
    \* WALWatcher fields and the foreground controller
    started, quit, done, stopPc, MaxSegment, watchersRunning,
    \* the worker: its position and the locals of run / watch / readSegment
    pc, lastSegment, currentSegment, tail, openFiles, tickers,
    rpos, rerr, readCtx, err,
    \* the current_segment gauge and the records_read and record_decode_fails
    \* counters
    metricCurrentSegment, recordsRead, recordDecodeFails,
    \* history: the records the reader has handed out (Next returned true) and
    \* the calls of decodeAndDispatch; the containers taken from the record pool
    \* and not given back
    readerHandedOut, dispatchCalls, recordsHeld,
    \* decodeAndDispatch: the consumer calls made for the record, firstErr
    calls, firstErr,
    \* history: the current run's opens, record dispatches and SegmentEnd calls
    \* (runLog), every SegmentEnd of the watcher's life (segEnds), the segment and
    \* dispatch count of the watch that failed the previous run (failedAt), and
    \* the number of run invocations (runs)
    runLog, segEnds, failedAt, runs

envVars == <<dirSegs, dirOther, segs>>
ctlVars == <<started, quit, done, stopPc, MaxSegment, watchersRunning>>
runVars == <<lastSegment, currentSegment, tail>>
readerVars == <<openFiles, tickers, rpos, rerr, readCtx>>
dispVars == <<calls, firstErr>>
metricVars == <<metricCurrentSegment, recordsRead, recordDecodeFails>>
callVars == <<readerHandedOut, dispatchCalls, recordsHeld>>
histVars == <<runLog, segEnds, failedAt, runs>>
vars == <<dirSegs, dirOther, segs, started, quit, done, stopPc, MaxSegment, watchersRunning,
          pc, lastSegment, currentSegment, tail, openFiles, tickers,
          rpos, rerr, readCtx, err, metricCurrentSegment, recordsRead, recordDecodeFails,
          readerHandedOut, dispatchCalls, recordsHeld, calls, firstErr,
          runLog, segEnds, failedAt, runs>>

\* failedAt when the previous run did not end in a failed watch.
NoFail == {}

\* NewWALWatcher on a directory the writer has not touched yet; the MaxSegment
\* field is left out.
NewWALWatcher ==
    /\ dirSegs = {}
    /\ dirOther = {CheckpointName}
    /\ segs = [s \in SegIds |-> <<>>]
    /\ started = FALSE
    /\ quit = FALSE
    /\ done = FALSE
    /\ stopPc = "idle"
    /\ watchersRunning = 0
    /\ pc = "idle"
    /\ lastSegment = -1
    /\ currentSegment = -1
    /\ tail = TRUE
    /\ openFiles = {}
    /\ tickers = {}
    /\ rpos = 0
    /\ rerr = Nil
    /\ readCtx = "tick"
    /\ err = Nil
    /\ metricCurrentSegment = 0
    /\ recordsRead = 0
    /\ recordDecodeFails = 0
    /\ readerHandedOut = 0
    /\ dispatchCalls = 0
    /\ recordsHeld = 0
    /\ calls = <<>>
    /\ firstErr = Nil
    /\ runLog = <<>>
    /\ segEnds = <<>>
    /\ failedAt = NoFail
    /\ runs = 0

\* The constructor sets MaxSegment to -1.
Init == NewWALWatcher /\ MaxSegment = -1

\* A test sets the MaxSegment field to a segment id before Start.
InitHook == NewWALWatcher /\ MaxSegment \in -1..MaxSegId


\* ------------------------------------------------------- the external writer
\* The names os.ReadDir lists.
DirEntries == {SegmentName(s) : s \in dirSegs} \cup dirOther

LastOnDisk == IF dirSegs = {} THEN -1 ELSE SetMax(dirSegs)
Faulty == Cardinality({<<s, i>> \in SegIds \X (1..MaxRecs) :
                          i <= Len(segs[s]) /\ segs[s][i].kind # "ok"})

\* The writer appends one fully flushed record, one of Recs, to the live (last)
\* segment.
WriterAppendOf(Recs) ==
    /\ dirSegs # {}
    /\ Len(segs[LastOnDisk]) < MaxRecs
    /\ \E k \in Recs :
          /\ k.kind # "ok" => Faulty < MaxFaulty
          /\ segs' = [segs EXCEPT ![LastOnDisk] = Append(@, k)]
    /\ UNCHANGED <<metricVars, callVars, dirSegs, dirOther, ctlVars, pc, runVars, readerVars, err, dispVars, histVars>>

WriterAppend == WriterAppendOf(WriterRecords)

\* The writer appends a well-formed record.
WriterAppendOk == WriterAppendOf({OkRec(1, 1)})

\* The writer cuts a new segment, which seals the previous one.
WriterCut ==
    /\ LastOnDisk < MaxSegId
    /\ dirSegs' = dirSegs \cup {LastOnDisk + 1}
    /\ UNCHANGED <<metricVars, callVars, dirOther, segs, ctlVars, pc, runVars, readerVars, err, dispVars, histVars>>

\* A segment file the watcher does not hold open is removed from the directory
\* (a truncation of the WAL, or a file lost): the ids left may have a gap.
SegmentRemoved ==
    /\ \E s \in dirSegs \ openFiles :
          /\ dirSegs' = dirSegs \ {s}
          /\ segs' = [segs EXCEPT ![s] = <<>>]
    /\ UNCHANGED <<metricVars, callVars, dirOther, ctlVars, pc, runVars, readerVars, err, dispVars, histVars>>

\* ------------------------------------------------------------ the controller
\* isClosed: a non-blocking receive on a channel that is only ever closed.
isClosedAlways(c) == TRUE

\* A check that never sees the close.
isClosedNever(c) == FALSE
isClosed(c) == c

\* A receive that does not wait for the close.
ReceivedAtOnce(c) == TRUE

\* <-w.done: the blocking receive returns once the channel is closed.
Received(c) == c

\* Start: count the watcher and spawn the main loop.
Start ==
    /\ ~started
    /\ started' = TRUE
    /\ watchersRunning' = watchersRunning + 1
    /\ pc' = "mainLoop"
    /\ UNCHANGED <<metricVars, callVars, envVars, quit, done, stopPc, MaxSegment, runVars, readerVars, err,
                   dispVars, histVars>>

\* Stop, first half: close(w.quit).
Stop ==
    /\ stopPc = "idle"
    /\ quit' = TRUE
    /\ stopPc' = "waiting"
    /\ UNCHANGED <<metricVars, callVars, envVars, started, done, MaxSegment, watchersRunning, pc, runVars,
                   readerVars, err, dispVars, histVars>>

\* Stop, second half: <-w.done, then the gauge is decremented.
StopReturn ==
    /\ stopPc = "waiting"
    /\ Received(done)
    /\ stopPc' = "returned"
    /\ watchersRunning' = watchersRunning - 1
    /\ UNCHANGED <<metricVars, callVars, envVars, started, quit, done, MaxSegment, pc, runVars, readerVars,
                   err, dispVars, histVars>>

\* ---------------------------------------------------------------- mainLoop
\* A main loop that never closes done.
NeverClosed(returning) == FALSE

\* A close(w.done) that is not deferred: it runs when the main loop is entered.
ClosedAtEntry(returning) == TRUE

\* defer close(w.done): done is closed when mainLoop returns, and only then.
DeferredClose(returning) == returning

\* for !isClosed(w.quit) { run ... }; the deferred close(w.done) on the way out.
MainLoop ==
    /\ pc = "mainLoop"
    /\ IF isClosed(quit)
       THEN /\ done' = (done \/ DeferredClose(TRUE))
            /\ pc' = "exited"
       ELSE /\ runs < MaxRuns
            /\ done' = (done \/ DeferredClose(FALSE))
            /\ pc' = "run"
    /\ UNCHANGED <<metricVars, callVars, envVars, started, quit, stopPc, MaxSegment, watchersRunning, runVars,
                   readerVars, err, dispVars, histVars>>

\* The select after run: the quit case returns (closing done).
BackoffQuit ==
    /\ pc = "backoff"
    /\ quit
    /\ done' = (done \/ DeferredClose(TRUE))
    /\ pc' = "exited"
    /\ err' = Nil
    /\ UNCHANGED <<metricVars, callVars, envVars, started, quit, stopPc, MaxSegment, watchersRunning, runVars,
                   readerVars, dispVars, histVars>>

\* The select after run: the 5 s timer case goes round the loop.
BackoffTimer ==
    /\ pc = "backoff"
    /\ pc' = "mainLoop"
    /\ err' = Nil
    /\ UNCHANGED <<metricVars, callVars, envVars, ctlVars, runVars, readerVars, dispVars, histVars>>

\* --------------------------------------------------------------------- run
\* A run that starts at the oldest segment instead of the newest.
StartAtFirst(first, last) == first

\* currentSegment := lastSegment
StartSegment(first, last) == last

\* the tail argument of watch: currentSegment >= lastSegment
TailMode(cur, last) == cur >= last

\* A run without the test hook.
NeverMaxSegment(cur, max) == FALSE

\* if currentSegment == w.MaxSegment { return nil }
IsMaxSegment(cur, max) == cur = max

\* run returns e to mainLoop, which logs it and waits; run's locals are gone.
\* fail holds the segment a failed watch was on and the number of its records
\* that watch had dispatched (NoFail otherwise).
RunReturn(e, fail) ==
    /\ pc' = "backoff"
    /\ err' = e
    /\ lastSegment' = -1
    /\ currentSegment' = -1
    /\ failedAt' = fail

\* run's entry: firstAndLast, then the first currentSegment.  Readable holds
\* the outcomes os.ReadDir may have (TRUE: the directory is listed).
RunStartOn(Readable) ==
    /\ pc = "run"
    /\ runs' = runs + 1
    /\ runLog' = <<>>
    /\ \E readable \in Readable :
          \E fl \in {firstAndLast(DirEntries, readable)} :
             IF fl[3] # Nil
             THEN RunReturn(fl[3], NoFail)
             ELSE /\ lastSegment' = fl[2]
                  /\ currentSegment' = StartSegment(fl[1], fl[2])
                  /\ pc' = "runLoop"
                  /\ UNCHANGED <<err, failedAt>>
    /\ UNCHANGED <<metricVars, callVars, envVars, ctlVars, tail, readerVars, dispVars, segEnds>>

RunStart == RunStartOn(BOOLEAN)

\* run's entry when the directory can be listed.
RunStartOk == RunStartOn({TRUE})

\* The head of run's loop: for !isClosed(w.quit); then the call of watch.
RunLoop ==
    /\ pc = "runLoop"
    /\ IF isClosed(quit)
       THEN /\ RunReturn(Nil, NoFail)
            /\ UNCHANGED <<tail, metricCurrentSegment>>
       ELSE /\ pc' = "watch"
            /\ metricCurrentSegment' = currentSegment
            /\ tail' = TailMode(currentSegment, lastSegment)
            /\ UNCHANGED <<err, failedAt, lastSegment, currentSegment>>
    /\ UNCHANGED <<recordsRead, recordDecodeFails, callVars, envVars, ctlVars, readerVars,
                   dispVars, runLog, segEnds, runs>>

\* A run that leaves out a segment when it advances.
SkipSegment(cur) == cur + 2

\* currentSegment++
NextSegment(cur) == cur + 1

\* After watch returned nil: the test hook, else SegmentEnd and the increment.
AfterWatch ==
    /\ pc = "afterWatch"
    /\ IF IsMaxSegment(currentSegment, MaxSegment)
       THEN /\ RunReturn(Nil, NoFail)
            /\ UNCHANGED <<segEnds, runLog>>
       ELSE /\ segEnds' = Append(segEnds, currentSegment)
            /\ runLog' = Append(runLog, <<"end", currentSegment, 0>>)
            /\ currentSegment' = NextSegment(currentSegment)
            /\ pc' = "runLoop"
            /\ UNCHANGED <<err, failedAt, lastSegment>>
    /\ UNCHANGED <<metricVars, callVars, envVars, ctlVars, tail, readerVars, dispVars, runs>>

\* ------------------------------------------------------------------- watch
AllTickers == {"read", "checkpoint", "segment"}

\* A watch whose return leaves its tickers running.
LeaveTickers(ts) == ts

\* defer readTicker.Stop(), defer checkpointTicker.Stop(), defer
\* segmentTicker.Stop(): the tickers left active when watch returns.
StopTickers(ts) == {}

\* A replay that keeps all three tickers running.
ReplayKeepsTickers(ts) == ts

\* if !tail { segmentTicker.Stop(); checkpointTicker.Stop() }
ReplayTickers(ts) == ts \ {"segment", "checkpoint"}

\* A reader that is kept across watch calls and resumes where the failed watch
\* of the same segment had got to.
ResumedReaderPos(seg) ==
    IF \E f \in failedAt : f.seg = seg
    THEN (CHOOSE f \in failedAt : f.seg = seg).n
    ELSE 0

\* A reader that starts after the first record of the file.
ReaderPosOffByOne(seg) == 1

\* wlog.NewLiveReader over a segment opened by wlog.OpenReadSegment: the
\* reader's first record is the first record of the file.
NewReaderPos(seg) == 0

\* A watch that leaves its segment file open when it returns.
LeaveOpen(files, seg) == files

\* defer segment.Close()
CloseSegment(files, seg) == files \ {seg}

\* A segment check that takes the segment itself for a newer one.
NewSegmentOrSame(last, segmentNum) == last >= segmentNum

\* if last <= segmentNum { continue }
NewSegmentCut(last, segmentNum) == last > segmentNum

\* Records of segment s dispatched by the current run.
DispatchedOf(s) == {i \in 1..MaxRecs : <<"rec", s, i>> \in Range(runLog)}

\* A run that takes every return of watch for a success.
WatchNeverFailed(e) == FALSE

\* if err := w.watch(...); err != nil { return err }
WatchFailed(e) == e # Nil

\* watch returns e to run: the deferred Close and ticker Stops, then run's
\* "if err != nil { return err }".
WatchReturn(e) ==
    /\ openFiles' = CloseSegment(openFiles, currentSegment)
    /\ tickers' = StopTickers(tickers)
    /\ rpos' = 0
    /\ rerr' = Nil
    /\ readCtx' = "tick"
    /\ tail' = TRUE
    /\ IF WatchFailed(e)
       THEN RunReturn(e, {[seg |-> currentSegment,
                           n |-> Cardinality(DispatchedOf(currentSegment))]})
       ELSE /\ pc' = "afterWatch"
            /\ err' = Nil
            /\ UNCHANGED <<lastSegment, currentSegment, failedAt>>

\* watch's entry: open the segment, make the reader and the three tickers; in
\* replay the segment and checkpoint tickers are stopped and the file is sized.
\* A segment that is not in the directory fails OpenReadSegment.  Sized holds
\* the outcomes getSegmentSize may have (TRUE: os.Stat succeeds).
WatchOpenOn(Sized) ==
    /\ pc = "watch"
    /\ IF currentSegment \notin dirSegs
       THEN /\ RunReturn(OpenErr, {[seg |-> currentSegment, n |-> 0]})
            /\ tail' = TRUE
            /\ UNCHANGED <<openFiles, tickers, rpos, rerr, runLog>>
       ELSE \E sized \in Sized :
               /\ runLog' = Append(runLog, <<"open", currentSegment, 0>>)
               /\ IF ~tail /\ ~sized
                  THEN /\ RunReturn(StatErr, {[seg |-> currentSegment, n |-> 0]})
                       /\ openFiles' = CloseSegment(openFiles, currentSegment)
                       /\ tail' = TRUE
                       /\ tickers' = StopTickers(ReplayTickers(AllTickers))
                       /\ UNCHANGED <<rpos, rerr>>
                  ELSE /\ openFiles' = openFiles \cup {currentSegment}
                       /\ rpos' = NewReaderPos(currentSegment)
                       /\ rerr' = Nil
                       /\ tickers' = IF tail THEN AllTickers ELSE ReplayTickers(AllTickers)
                       /\ pc' = "select"
                       /\ UNCHANGED <<err, failedAt, runVars>>
    /\ UNCHANGED <<metricVars, callVars, envVars, ctlVars, readCtx, dispVars, segEnds, runs>>

WatchOpen == WatchOpenOn(BOOLEAN)

\* watch's entry when the segment can be sized.
WatchOpenOk == WatchOpenOn({TRUE})

\* select, case <-w.quit: return nil.
WatchQuit ==
    /\ pc = "select"
    /\ quit
    /\ WatchReturn(Nil)
    /\ UNCHANGED <<metricVars, callVars, envVars, ctlVars, dispVars, runLog, segEnds, runs>>

\* select, case <-segmentTicker.C: list the directory; a listing error ends
\* watch, no newer segment goes back to the select, a newer segment starts the
\* final drain of this one.
SegmentTickOn(Readable) ==
    /\ pc = "select"
    /\ "segment" \in tickers
    /\ \E readable \in Readable :
          \E fl \in {firstAndLast(DirEntries, readable)} :
             IF fl[3] # Nil
             THEN WatchReturn(fl[3])
             ELSE /\ IF NewSegmentCut(fl[2], currentSegment)
                     THEN /\ pc' = "readSegment"
                          /\ readCtx' = "drain"
                     ELSE /\ pc' = "select"
                          /\ readCtx' = readCtx
                  /\ UNCHANGED <<openFiles, tickers, rpos, rerr, err, failedAt, runVars>>
    /\ UNCHANGED <<metricVars, callVars, envVars, ctlVars, dispVars, runLog, segEnds, runs>>

SegmentTick == SegmentTickOn(BOOLEAN)

\* The segment tick when the directory can be listed.
SegmentTickOk == SegmentTickOn({TRUE})

\* select, case <-readTicker.C: readSegment.
ReadTick ==
    /\ pc = "select"
    /\ "read" \in tickers
    /\ pc' = "readSegment"
    /\ readCtx' = "tick"
    /\ UNCHANGED <<metricVars, callVars, envVars, ctlVars, runVars, openFiles, tickers, rpos, rerr, err,
                   dispVars, histVars>>

\* A watch that takes EOF on a read tick for the end of the segment.
AfterReadEndsOnEOF(isTail, ctx, e) ==
    IF ~isTail THEN <<"return", Nil>>
    ELSE IF e # EOF THEN <<"return", e>>
    ELSE <<"return", Nil>>

\* A watch that treats a replay like a tail.
AfterReadAsTail(isTail, ctx, e) ==
    IF e # EOF THEN <<"return", e>>
    ELSE IF ctx = "drain" THEN <<"return", Nil>>
    ELSE <<"continue", Nil>>

\* What watch does with readSegment's result e: "continue" the select loop, or
\* return an error value.  ctx is the select case that called readSegment.
AfterRead(isTail, ctx, e) ==
    IF ~isTail THEN <<"return", Nil>>
    ELSE IF e # EOF THEN <<"return", e>>
    ELSE IF ctx = "drain" THEN <<"return", Nil>>
    ELSE <<"continue", Nil>>

\* readSegment has returned err to watch.
ReadReturn ==
    /\ pc = "readReturn"
    /\ LET a == AfterRead(tail, readCtx, err)
       IN IF a[1] = "return"
          THEN WatchReturn(a[2])
          ELSE /\ pc' = "select"
               /\ err' = Nil
               /\ UNCHANGED <<openFiles, tickers, rpos, rerr, readCtx, failedAt, runVars>>
    /\ UNCHANGED <<metricVars, callVars, envVars, ctlVars, dispVars, runLog, segEnds, runs>>

\* ------------------------------------------------------------- readSegment
\* LiveReader.Next on a file holding `file`, the reader having handed out pos
\* records: a complete record is handed out; a damaged frame is a terminal
\* non-EOF error; no further bytes is EOF, and Next can be tried again.
LiveReaderNext(file, pos, e) ==
    IF e = CorruptErr THEN [ok |-> FALSE, pos |-> pos, err |-> CorruptErr]
    ELSE IF pos >= Len(file) THEN [ok |-> FALSE, pos |-> pos, err |-> EOF]
    ELSE IF file[pos + 1].kind = "corrupt"
         THEN [ok |-> FALSE, pos |-> pos, err |-> CorruptErr]
    ELSE [ok |-> TRUE, pos |-> pos + 1, err |-> Nil]

\* recordPool.GetRecord: one more container is out of the pool.  held is the
\* number of containers the watcher has taken and not given back.
GetRecord(held) == held + 1

\* ingester.DecodeWALRecord
Decodes(rec) == rec.kind # "undecodable"

\* A readSegment that drops decodeAndDispatch's error and reads on.
ReadSegmentNeverStops(e) == FALSE

\* if err := w.decodeAndDispatch(b); err != nil { return err }
ReadSegmentStops(e) == e # Nil

\* The loop head "for r.Next() && !isClosed(w.quit)" and, for a record, the
\* r.Err() check and decodeAndDispatch's decode.  When the loop ends,
\* readSegment returns the reader's error (nil after a record, when quit ended
\* the loop).
ReadNext ==
    /\ pc = "readSegment"
    /\ LET nx == LiveReaderNext(segs[currentSegment], rpos, rerr)
       IN /\ rpos' = nx.pos
          /\ rerr' = nx.err
          /\ readerHandedOut' = IF nx.ok THEN readerHandedOut + 1 ELSE readerHandedOut
          /\ IF nx.ok /\ ~isClosed(quit)
             THEN IF nx.err # Nil
                  THEN /\ pc' = "readReturn"
                       /\ err' = nx.err
                       /\ UNCHANGED <<runLog, recordsRead, recordDecodeFails, dispatchCalls,
                                      recordsHeld>>
                  ELSE /\ recordsRead' = recordsRead + 1
                       /\ dispatchCalls' = dispatchCalls + 1
                       /\ recordsHeld' = GetRecord(recordsHeld)
                       /\ IF Decodes(segs[currentSegment][nx.pos])
                          THEN /\ pc' = "dispatch"
                               /\ err' = Nil
                               /\ runLog' = Append(runLog, <<"rec", currentSegment, nx.pos>>)
                               /\ recordDecodeFails' = recordDecodeFails
                          ELSE /\ pc' = IF ReadSegmentStops(DecodeErr)
                                        THEN "readReturn" ELSE "readSegment"
                               /\ err' = IF ReadSegmentStops(DecodeErr) THEN DecodeErr ELSE Nil
                               /\ runLog' = runLog
                               /\ recordDecodeFails' = recordDecodeFails + 1
             ELSE /\ pc' = "readReturn"
                  /\ err' = nx.err
                  /\ UNCHANGED <<runLog, recordsRead, recordDecodeFails, dispatchCalls,
                                 recordsHeld>>
    /\ UNCHANGED <<metricCurrentSegment, envVars, ctlVars, runVars, openFiles, tickers, readCtx,
                   dispVars, segEnds, failedAt, runs>>

\* ------------------------------------------------------- decodeAndDispatch
\* The record decodeAndDispatch is working on.
CurRec == segs[currentSegment][rpos]

SeriesCalls(c) == {i \in 1..Len(c) : c[i][1] = "series"}
EntriesCalls(c) == {i \in 1..Len(c) : c[i][1] = "entries"}

\* for _, s := range rec.Series
SeriesLoopActive(c, rec) == Cardinality(SeriesCalls(c)) < rec.ns

\* An entries loop that does not wait for the series loop.
EntriesLoopEarly(c, rec) == Cardinality(EntriesCalls(c)) < rec.ne

\* for _, entries := range rec.RefEntries, which follows the series loop
EntriesLoopActive(c, rec) ==
    /\ ~SeriesLoopActive(c, rec)
    /\ Cardinality(EntriesCalls(c)) < rec.ne

\* A dispatcher that keeps the last error instead of the first.
RememberLastErr(first, e) == e

\* if firstErr == nil { firstErr = err }
RememberErr(first, e) == IF first = Nil THEN e ELSE first

\* One ConsumeSeries call; Failing holds the outcomes the consumer may give
\* (TRUE: it returns an error).
ConsumeSeriesWith(Failing) ==
    /\ pc = "dispatch"
    /\ SeriesLoopActive(calls, CurRec)
    /\ LET i == Cardinality(SeriesCalls(calls)) + 1
       IN \E failed \in Failing :
             /\ calls' = Append(calls, <<"series", i, failed>>)
             /\ firstErr' = IF failed THEN RememberErr(firstErr, SeriesErr(i)) ELSE firstErr
    /\ UNCHANGED <<metricVars, callVars, envVars, ctlVars, pc, runVars, readerVars, err, histVars>>

ConsumeSeries == ConsumeSeriesWith(BOOLEAN)

\* A ConsumeSeries call the consumer accepts.
ConsumeSeriesOk == ConsumeSeriesWith({FALSE})

\* One ConsumeEntries call.
ConsumeEntriesWith(Failing) ==
    /\ pc = "dispatch"
    /\ EntriesLoopActive(calls, CurRec)
    /\ LET i == Cardinality(EntriesCalls(calls)) + 1
       IN \E failed \in Failing :
             /\ calls' = Append(calls, <<"entries", i, failed>>)
             /\ firstErr' = IF failed THEN RememberErr(firstErr, EntriesErr(i)) ELSE firstErr
    /\ UNCHANGED <<metricVars, callVars, envVars, ctlVars, pc, runVars, readerVars, err, histVars>>

ConsumeEntries == ConsumeEntriesWith(BOOLEAN)

\* A ConsumeEntries call the consumer accepts.
ConsumeEntriesOk == ConsumeEntriesWith({FALSE})

\* return firstErr, and readSegment's "if err != nil { return err }".
DispatchReturn ==
    /\ pc = "dispatch"
    /\ ~SeriesLoopActive(calls, CurRec)
    /\ ~EntriesLoopActive(calls, CurRec)
    /\ pc' = IF ReadSegmentStops(firstErr) THEN "readReturn" ELSE "readSegment"
    /\ err' = IF ReadSegmentStops(firstErr) THEN firstErr ELSE Nil
    /\ calls' = <<>>
    /\ firstErr' = Nil
    /\ UNCHANGED <<metricVars, callVars, envVars, ctlVars, runVars, readerVars, histVars>>

\* ---------------------------------------------------------- specification
Writer ==
    \/ WriterAppend
    \/ WriterCut

Controller ==
    \/ Start
    \/ Stop
    \/ StopReturn

Dispatch ==
    \/ ConsumeSeries
    \/ ConsumeEntries
    \/ DispatchReturn

Worker ==
    \/ MainLoop
    \/ BackoffQuit
    \/ BackoffTimer
    \/ RunStart
    \/ RunLoop
    \/ AfterWatch
    \/ WatchOpen
    \/ WatchQuit
    \/ SegmentTick
    \/ ReadTick
    \/ ReadReturn
    \/ ReadNext
    \/ Dispatch

Next == Writer \/ Controller \/ Worker

\* The whole watcher with its writer and its controller.
Spec == Init /\ [][Next]_vars

\* The worker when Stop is never requested, the directory can always be listed
\* and the consumer accepts every call.
LiveWorker ==
    \/ MainLoop
    \/ BackoffTimer
    \/ RunStartOk
    \/ RunLoop
    \/ AfterWatch
    \/ WatchOpen
    \/ SegmentTickOk
    \/ ReadTick
    \/ ReadReturn
    \/ ReadNext
    \/ ConsumeSeriesOk
    \/ ConsumeEntriesOk
    \/ DispatchReturn

NextLive == WriterAppendOk \/ WriterCut \/ Start \/ LiveWorker

\* The watcher with no Stop request and no reader, codec, consumer or directory
\* error: the worker goroutine keeps running and the read ticker keeps firing.
LiveSpec == Init /\ [][NextLive]_vars /\ WF_vars(LiveWorker) /\ WF_vars(ReadTick)

\* The watcher with its controller and a writer of well-formed records.  The
\* worker goroutine keeps being scheduled, a select whose quit case is ready
\* again and again eventually takes it (Go picks among the ready cases at
\* random), and the goroutine blocked in Stop resumes once done is closed.
NextShutdown == WriterAppendOk \/ WriterCut \/ Controller \/ Worker

ShutdownSpec ==
    /\ Init
    /\ [][NextShutdown]_vars
    /\ WF_vars(Worker)
    /\ SF_vars(WatchQuit)
    /\ WF_vars(StopReturn)

\* Every content a segment file may have: up to MaxRecs records of any kind.
SegmentContents ==
    UNION {[1..n -> OkRecords \cup {CorruptRec, UndecodableRec}] : n \in 0..MaxRecs}

\* watch alone, called with tail = false on the sealed segment 0 (segment 1
\* exists): run is at its call of watch, with lastSegment above currentSegment.
InitReplay ==
    /\ dirSegs = {0, 1}
    /\ dirOther = {CheckpointName}
    /\ \E c \in SegmentContents : segs = [s \in SegIds |-> IF s = 0 THEN c ELSE <<>>]
    /\ started = TRUE
    /\ quit = FALSE
    /\ done = FALSE
    /\ stopPc = "idle"
    /\ MaxSegment = -1
    /\ watchersRunning = 1
    /\ pc = "watch"
    /\ lastSegment = 1
    /\ currentSegment = 0
    /\ tail = TailMode(0, 1)
    /\ openFiles = {}
    /\ tickers = {}
    /\ rpos = 0
    /\ rerr = Nil
    /\ readCtx = "tick"
    /\ err = Nil
    /\ metricCurrentSegment = 0
    /\ recordsRead = 0
    /\ recordDecodeFails = 0
    /\ readerHandedOut = 0
    /\ dispatchCalls = 0
    /\ recordsHeld = 0
    /\ calls = <<>>
    /\ firstErr = Nil
    /\ runLog = <<>>
    /\ segEnds = <<>>
    /\ failedAt = NoFail
    /\ runs = 1

\* The steps of one watch call in replay, and a Stop request.
NextReplay ==
    \/ WatchOpen
    \/ WatchQuit
    \/ ReadTick
    \/ ReadNext
    \/ Dispatch
    \/ ReadReturn
    \/ Stop

ReplaySpec == InitReplay /\ [][NextReplay]_vars

\* The whole watcher, started either by Start() or at a call of watch with
\* tail = false on a sealed segment that holds at most one record.
InitReplayShort == InitReplay /\ Len(segs[0]) <= 1

WatchSpec == (Init \/ InitReplayShort) /\ [][Next]_vars

\* run's directory listing alone, on any directory: any set of segment files
\* (with gaps, or with the oldest ones removed) and any other entries.
InitSegments ==
    /\ dirSegs \in SUBSET SegIds
    /\ dirOther \in SUBSET OtherNames
    /\ segs = [s \in SegIds |-> <<>>]
    /\ started = TRUE
    /\ quit = FALSE
    /\ done = FALSE
    /\ stopPc = "idle"
    /\ MaxSegment = -1
    /\ watchersRunning = 1
    /\ pc = "run"
    /\ lastSegment = -1
    /\ currentSegment = -1
    /\ tail = TRUE
    /\ openFiles = {}
    /\ tickers = {}
    /\ rpos = 0
    /\ rerr = Nil
    /\ readCtx = "tick"
    /\ err = Nil
    /\ metricCurrentSegment = 0
    /\ recordsRead = 0
    /\ recordDecodeFails = 0
    /\ readerHandedOut = 0
    /\ dispatchCalls = 0
    /\ recordsHeld = 0
    /\ calls = <<>>
    /\ firstErr = Nil
    /\ runLog = <<>>
    /\ segEnds = <<>>
    /\ failedAt = NoFail
    /\ runs = 0

SegmentsSpec == InitSegments /\ [][RunStart]_vars

\* The watcher with any MaxSegment, its controller and a writer of well-formed
\* records.
HookSpec == InitHook /\ [][NextShutdown]_vars

\* The worker on segments that hold no record: every read ends with EOF.
DirWorker ==
    \/ MainLoop
    \/ BackoffQuit
    \/ BackoffTimer
    \/ RunStart
    \/ RunLoop
    \/ AfterWatch
    \/ WatchOpen
    \/ WatchQuit
    \/ SegmentTick
    \/ ReadTick
    \/ ReadReturn
    \/ ReadNext

\* The watcher with its controller, a writer that only cuts segments and a
\* directory that loses segment files.
NextDir == WriterCut \/ SegmentRemoved \/ Controller \/ DirWorker

DirSpec == Init /\ [][NextDir]_vars

\* The watcher with any MaxSegment, where the worker goroutine keeps being
\* scheduled: run can return normally with no Stop request.
RetrySpec == InitHook /\ [][NextShutdown]_vars /\ WF_vars(Worker)

\* decodeAndDispatch alone, on any well-formed record: the worker has just read
\* and decoded record 1 of the live segment 0.
InitDispatch ==
    /\ dirSegs = {0}
    /\ dirOther = {CheckpointName}
    /\ \E r \in OkRecords : segs = [s \in SegIds |-> IF s = 0 THEN <<r>> ELSE <<>>]
    /\ started = TRUE
    /\ quit = FALSE
    /\ done = FALSE
    /\ stopPc = "idle"
    /\ MaxSegment = -1
    /\ watchersRunning = 1
    /\ pc = "dispatch"
    /\ lastSegment = 0
    /\ currentSegment = 0
    /\ tail = TRUE
    /\ openFiles = {0}
    /\ tickers = AllTickers
    /\ rpos = 1
    /\ rerr = Nil
    /\ readCtx = "tick"
    /\ err = Nil
    /\ metricCurrentSegment = 0
    /\ recordsRead = 0
    /\ recordDecodeFails = 0
    /\ readerHandedOut = 0
    /\ dispatchCalls = 0
    /\ recordsHeld = 0
    /\ calls = <<>>
    /\ firstErr = Nil
    /\ runLog = <<<<"open", 0, 0>>, <<"rec", 0, 1>>>>
    /\ segEnds = <<>>
    /\ failedAt = NoFail
    /\ runs = 1

DispatchSpec == InitDispatch /\ [][Dispatch]_vars


\* ------------------------------------------------------------------ claims
InRun == pc \in {"runLoop", "watch", "select", "readSegment", "dispatch", "readReturn",
                 "afterWatch"}
InWatch == pc \in {"select", "readSegment", "dispatch", "readReturn"}
Failures(c) == {i \in 1..Len(c) : c[i][3]}
RecEvents(s) == SelectSeq(runLog, LAMBDA e : e[1] = "rec" /\ e[2] = s)

\* C1: while a decoded record is dispatched, the ConsumeSeries calls are made in
\* list order, every one of them before the first ConsumeEntries call, and the
\* ConsumeEntries calls follow in list order, whatever the callbacks return.
C1_SeriesBeforeEntries ==
    pc = "dispatch" =>
       \A i \in 1..Len(calls) :
          /\ calls[i][1] = "series" => calls[i][2] = i
          /\ calls[i][1] = "entries" => calls[i][2] = i - CurRec.ns
          /\ \A j \in 1..Len(calls) :
                (calls[i][1] = "series" /\ calls[j][1] = "entries") => i < j

\* C1 witness: a record with two series and an entry batch, fully dispatched,
\* whose first ConsumeSeries call failed.
C1_Witness ==
    /\ pc = "dispatch"
    /\ CurRec.ns >= 2
    /\ CurRec.ne >= 1
    /\ Len(calls) = CurRec.ns + CurRec.ne
    /\ calls[1][3]

\* The error of the first failed call of c, nil when none failed.
FirstFailure(c) ==
    IF Failures(c) = {} THEN Nil
    ELSE LET k == SetMin(Failures(c)) IN <<c[k][1], c[k][2]>>

\* The callbacks decodeAndDispatch owes a record, in dispatch order.
ExpectedCalls(rec) ==
    [k \in 1..(rec.ns + rec.ne) |->
        IF k <= rec.ns THEN <<"series", k>> ELSE <<"entries", k - rec.ns>>]

\* C2: when decodeAndDispatch returns, every series and every entry batch of the
\* record has been passed to the consumer, failed calls or not, and the value
\* returned to readSegment is the error of the first failed call (nil exactly
\* when no call failed).
C2_FirstErrorReturned ==
    [][(pc = "dispatch" /\ pc' # "dispatch") =>
          /\ [k \in 1..Len(calls) |-> <<calls[k][1], calls[k][2]>>] = ExpectedCalls(CurRec)
          /\ err' = FirstFailure(calls)]_vars

\* C2 witness: all callbacks of a record made, two or more of them failed.
C2_Witness ==
    /\ pc = "dispatch"
    /\ Len(calls) = CurRec.ns + CurRec.ne
    /\ Cardinality(Failures(calls)) >= 2

\* The current run is the retry after a watch of segment f.seg failed, having
\* dispatched f.n records, and that segment is still the last one.
IsRetryOf(f) ==
    /\ InRun
    /\ f \in failedAt
    /\ f.seg = lastSegment

\* C3 as stated: in the retry, no record of N that the failed watch had
\* dispatched is dispatched again.
C3_NoRedispatch ==
    \A f \in failedAt :
       IsRetryOf(f) => \A j \in 1..f.n : <<"rec", f.seg, j>> \notin Range(runLog)

\* C3 amended: the retry opens segment N again and reads it from its first
\* record, so, as long as Stop has not been requested, every record the failed
\* watch had dispatched is dispatched again as soon as the new reader has
\* passed it.
C3_RetryReadsFromStart ==
    \A f \in failedAt :
       (IsRetryOf(f) /\ InWatch /\ currentSegment = f.seg /\ ~quit) =>
          \A j \in 1..f.n : j <= rpos => <<"rec", f.seg, j>> \in Range(runLog)

\* C3 witness: a retry on the same last segment that has dispatched record 1 a
\* second time.
C3_Witness ==
    \E f \in failedAt :
       /\ IsRetryOf(f)
       /\ f.n >= 1
       /\ <<"rec", f.seg, 1>> \in Range(runLog)

\* C4: at every SegmentEnd(N) call, every record written to segment N has been
\* dispatched, and no record of segment N+1 has been dispatched yet.
C4_SegmentEndAfterAllRecords ==
    [][segEnds' # segEnds =>
          /\ \A j \in 1..Len(segs[currentSegment]) :
                <<"rec", currentSegment, j>> \in Range(runLog)
          /\ \A e \in Range(runLog) : ~(e[1] = "rec" /\ e[2] > currentSegment)]_vars

\* C5: SegmentEnd(N) is never emitted while N is the last segment of the
\* directory: every id passed to SegmentEnd is below the directory's last id.
C5_NoSegmentEndOnLive ==
    \A i \in 1..Len(segEnds) : segEnds[i] < LastOnDisk

\* C6: over the watcher's life, across run retries, the ids passed to SegmentEnd
\* are strictly increasing.
C6_SegmentEndIncreasing ==
    \A i, j \in 1..Len(segEnds) : i < j => segEnds[i] < segEnds[j]

\* C6 witness: two SegmentEnd calls, the earlier one made by the first run and
\* the later one by its retry.
C6_Witness ==
    /\ runs >= 2
    /\ Len(segEnds) >= 2
    /\ Cardinality({i \in 1..Len(runLog) : runLog[i][1] = "end"}) = 1

\* C7: the records one watch call dispatches from its segment are records
\* 1, 2, ..., k of the file, in that order: none twice, none skipped.
C7_FileOrder ==
    \A s \in SegIds : \A i \in 1..Len(RecEvents(s)) : RecEvents(s)[i][3] = i

\* C7 witness: a watch call that has dispatched two records of its segment.
C7_Witness ==
    /\ InWatch
    /\ Len(RecEvents(currentSegment)) >= 2

\* C8: the first segment a run opens is the directory's last segment at the
\* start of the run, and the run neither opens nor dispatches from any segment
\* below it.
C8_StartsAtLast ==
    InRun =>
       /\ runLog # <<>> => runLog[1] = <<"open", lastSegment, 0>>
       /\ \A i \in 1..Len(runLog) : runLog[i][2] >= lastSegment

\* C8 witness: a run started on segments 0..last, last >= 1, segment 0 holding a
\* record, that has dispatched a record.
C8_Witness ==
    /\ InRun
    /\ lastSegment >= 1
    /\ Len(segs[0]) >= 1
    /\ \E i \in 1..Len(runLog) : runLog[i][1] = "rec"

\* C9: a non-EOF reader error met while draining a sealed segment N (a newer
\* segment has been seen) does not fail the run.
C9_SealedCorruptionAdvances ==
    [][(pc = "readReturn" /\ readCtx = "drain" /\ err = CorruptErr) => pc' # "backoff"]_vars


\* C10: with no Stop request and no reader, codec, consumer or directory
\* error, a record the writer has flushed to the segment the watcher is tailing
\* is eventually dispatched.
C10_TailProgress ==
    \A s \in SegIds : \A i \in 1..MaxRecs :
       (InWatch /\ currentSegment = s /\ Len(segs[s]) >= i)
          ~> (<<"rec", s, i>> \in Range(runLog))

\* C10 witness: the watcher has dispatched the second record of the segment it
\* tails on a read tick.
C10_Witness ==
    /\ InWatch
    /\ readCtx = "tick"
    /\ <<"rec", currentSegment, 2>> \in Range(runLog)

\* C11: once Stop has closed quit on a started watcher, the worker eventually
\* exits and Stop returns, whatever the worker was doing at the time.
C11_ShutdownCompletes ==
    (started /\ quit) ~> (pc = "exited" /\ stopPc = "returned")

\* C11 witness: Stop has returned on a worker that was stopped in a run that had
\* dispatched a record and called SegmentEnd.
C11_Witness ==
    /\ pc = "exited"
    /\ stopPc = "returned"
    /\ \E e \in Range(runLog) : e[1] = "rec"
    /\ \E e \in Range(runLog) : e[1] = "end"

\* C12: done is closed once, by the step with which the worker leaves the main
\* loop; the worker does nothing after that step; and Stop returns only when
\* done is closed and the main loop has exited.
C12_DoneClosedOnceAtExit ==
    [][/\ (done' # done) <=> (pc # "exited" /\ pc' = "exited")
       /\ (done' # done) => (~done /\ done')
       /\ pc = "exited" => pc' = "exited"
       /\ (stopPc # "returned" /\ stopPc' = "returned") => (done /\ pc = "exited")]_vars

\* C12 witness: Stop has returned on a worker that had retried run.
C12_Witness ==
    /\ stopPc = "returned"
    /\ done
    /\ pc = "exited"
    /\ runs >= 2

\* C13: whenever done is closed (the worker has exited), quit is closed: no
\* error of run or watch ends the worker.
C13_ExitOnlyOnStop ==
    (done \/ pc = "exited") => quit

\* C13 witness: the worker has exited on Stop after a run that a failed watch
\* had ended.
C13_Witness ==
    /\ done
    /\ quit
    /\ failedAt # NoFail

\* C14: once Stop has returned, the watcher holds no open segment file and the
\* watchers-running gauge is back to its value before Start, zero.
C14_CleanAfterStop ==
    stopPc = "returned" => (openFiles = {} /\ watchersRunning = 0)

\* C14 witness: Stop has returned on a worker whose last run had opened a
\* segment.
C14_Witness ==
    /\ stopPc = "returned"
    /\ started
    /\ \E e \in Range(runLog) : e[1] = "open"

\* C15 as stated: between Start and the worker's exit exactly one segment file
\* is open.
C15_ExactlyOneOpen ==
    (started /\ pc # "exited") => Cardinality(openFiles) = 1

\* C15 amended: at most one segment file is open: the current segment's while a
\* watch call is past its open, and none outside a watch call (before the first
\* open, between watch calls, in the backoff wait, after the exit).
C15_AtMostOneOpen ==
    /\ Cardinality(openFiles) <= 1
    /\ InWatch => openFiles = {currentSegment}
    /\ ~InWatch => openFiles = {}

\* C15 witness: the watcher is inside watch on a segment it advanced to after
\* SegmentEnd of the previous one.
C15_Witness ==
    /\ InWatch
    /\ currentSegment >= 1
    /\ \E e \in Range(runLog) : e = <<"end", currentSegment - 1, 0>>

\* Consumer callbacks made so far for the current record, and SegmentEnd calls.
CallbackCount == Len(calls) + Len(segEnds)

\* C16: every consumer callback is one step of the worker, taken between Start
\* and the close of done, one callback per step; no step of Start or Stop
\* invokes the consumer.
C16_CallbacksFromWorkerOnly ==
    [][(Len(calls') > Len(calls) \/ Len(segEnds') > Len(segEnds)) =>
          /\ CallbackCount' = CallbackCount + 1
          /\ started /\ ~done /\ ~done'
          /\ pc \in {"dispatch", "afterWatch"}
          /\ UNCHANGED <<started, quit, stopPc, watchersRunning>>]_vars

\* C16 witness: the worker has made a SegmentEnd call and, for a later record,
\* a ConsumeSeries and a ConsumeEntries call.
C16_Witness ==
    /\ pc = "dispatch"
    /\ Len(calls) >= 2
    /\ Len(segEnds) >= 1

\* The watcher is started and a run is on segment 0 or a run is still to come.
WillTailZero ==
    /\ started
    /\ dirSegs = {0}
    /\ runs < MaxRuns \/ (InRun /\ currentSegment = 0)

\* C17: with no Stop request and no error other than the failed open on an empty
\* directory: no consumer callback is made while the directory is empty; no
\* SegmentEnd is made while 0 is the only segment; records of segment 0 are
\* dispatched with the current_segment gauge at 0, in file order, each once (the
\* run that opened segment 0 is never restarted); and every record the writer
\* has put in segment 0 is eventually dispatched, unless a newer segment is cut
\* first.
C17_EmptyDirThenSegmentZero ==
    /\ [](dirSegs = {} =>
             /\ calls = <<>> /\ segEnds = <<>>
             /\ \A e \in Range(runLog) : e[1] = "open" => e[2] # 0)
    /\ [](dirSegs = {0} => segEnds = <<>>)
    /\ []((pc = "dispatch" /\ currentSegment = 0) => metricCurrentSegment = 0)
    /\ [](\A i \in 1..Len(RecEvents(0)) : RecEvents(0)[i][3] = i)
    /\ [][(<<"open", 0, 0>> \in Range(runLog)) =>
             (Len(runLog') >= Len(runLog) /\ SubSeq(runLog', 1, Len(runLog)) = runLog)]_vars
    /\ \A i \in 1..MaxRecs :
          (WillTailZero /\ Len(segs[0]) >= i)
             ~> (<<"rec", 0, i>> \in Range(runLog) \/ dirSegs # {0})

\* C17 witness: after a run that failed on the empty directory, the retry tails
\* segment 0, the only segment, and has dispatched its two records.
C17_Witness ==
    /\ runs >= 2
    /\ dirSegs = {0}
    /\ pc = "select"
    /\ currentSegment = 0
    /\ metricCurrentSegment = 0
    /\ Len(RecEvents(0)) = 2
    /\ segEnds = <<>>

\* Every record of segment s has been dispatched by the current run, once each,
\* in file order.
AllDispatched(s) ==
    RecEvents(s) = [i \in 1..Len(segs[s]) |-> <<"rec", s, i>>]

\* No record of segment s has a frame the reader rejects.
NoReaderError(s) == \A i \in 1..Len(segs[s]) : segs[s][i].kind # "corrupt"

\* C18 as stated: when watch returns normally in replay, Stop not requested and
\* the reader having no error but EOF to report, every record of the segment
\* has been dispatched once, in file order.
C18_ReplayDispatchesAll ==
    [][(InWatch /\ ~tail /\ ~quit /\ pc' = "afterWatch" /\ NoReaderError(currentSegment)) =>
          AllDispatched(currentSegment)]_vars

\* C18 amended: when the readSegment call of a replay ends with EOF, that is
\* with no reader error, no record the codec rejects, no consumer error and no
\* Stop request, watch returns normally and every record of the segment has
\* been dispatched once, in file order.
C18_ReplayCompleteOnEOF ==
    [][(pc = "readReturn" /\ pc' # pc /\ ~tail /\ ~quit /\ err = EOF) =>
          (pc' = "afterWatch" /\ AllDispatched(currentSegment))]_vars

\* C18 witness: a replay of a sealed segment of two records has returned
\* normally with both dispatched.
C18_Witness ==
    /\ pc = "afterWatch"
    /\ ~quit
    /\ ~TailMode(currentSegment, lastSegment)
    /\ Len(segs[currentSegment]) = 2
    /\ AllDispatched(currentSegment)

\* A name is a base-10 integer: an optional sign, then one or more digits.
UnsignedPart(name) ==
    IF Len(name) >= 1 /\ name[1] \in {"+", "-"} THEN Tail(name) ELSE name

IsBase10(name) ==
    /\ Len(UnsignedPart(name)) >= 1
    /\ \A j \in 1..Len(UnsignedPart(name)) : IsDigit(UnsignedPart(name)[j])

RECURSIVE Pow10(_)
Pow10(n) == IF n = 0 THEN 1 ELSE 10 * Pow10(n - 1)

\* The sum of the digits of ds from position j on, each times its power of ten.
RECURSIVE PlaceSum(_, _)
PlaceSum(ds, j) ==
    IF j > Len(ds) THEN 0
    ELSE DigitVal(ds[j]) * Pow10(Len(ds) - j) + PlaceSum(ds, j + 1)

IntValue(name) ==
    IF name[1] = "-" THEN 0 - PlaceSum(UnsignedPart(name), 1)
    ELSE PlaceSum(UnsignedPart(name), 1)

\* The entries of the directory whose name is an integer of value v.
EntriesOfValue(v) == {f \in DirEntries : IsBase10(f) /\ IntValue(f) = v}
EntryValues == {IntValue(f) : f \in {g \in DirEntries : IsBase10(g)}}

\* The integer entries have pairwise different values that leave no gap.
EntriesSequential ==
    /\ \A v \in EntryValues : Cardinality(EntriesOfValue(v)) = 1
    /\ \A v \in EntryValues : v = SetMin(EntryValues) \/ (v - 1) \in EntryValues

\* C19: on a readable directory segments fails exactly when the integer values
\* of its entries, sorted, have two neighbours that are not n, n+1; when it
\* succeeds the list is ascending and holds the value of every entry whose name
\* is a base-10 integer, once per entry, and nothing else; when it fails, or
\* the directory cannot be read, no list comes with the error.
C19_SegmentsSortedParsed ==
    LET r == segments(DirEntries, TRUE)
    IN /\ (r[2] = Nil) <=> EntriesSequential
       /\ r[2] = Nil =>
             /\ \A i, j \in 1..Len(r[1]) : i < j => r[1][i] <= r[1][j]
             /\ \A v \in EntryValues \cup Range(r[1]) :
                   Cardinality({i \in 1..Len(r[1]) : r[1][i] = v}) =
                      Cardinality(EntriesOfValue(v))
       /\ r[2] # Nil => r[1] = <<>>
       /\ segments(DirEntries, FALSE)[1] = <<>>
       /\ segments(DirEntries, FALSE)[2] # Nil
       /\ pc = "backoff" => err # Nil

\* C19 witness: run has listed a directory holding segment file 0, an entry
\* "+1" and a checkpoint entry, and found the last id to be 1.
C19_Witness ==
    /\ pc = "runLoop"
    /\ dirSegs = {0}
    /\ <<"+", "1">> \in dirOther
    /\ CheckpointName \in dirOther
    /\ lastSegment = 1

\* C20: firstAndLast gives the smallest and the largest id of the list and no
\* error when segments gives a non-empty list, (-1, -1) and no error when the
\* list is empty, and (-1, -1) with the error when segments fails; run takes
\* its last id from it.
C20_FirstAndLast ==
    /\ \A readable \in BOOLEAN :
          LET r == segments(DirEntries, readable)
              fl == firstAndLast(DirEntries, readable)
          IN IF r[2] # Nil THEN fl = <<-1, -1, r[2]>>
             ELSE IF r[1] = <<>> THEN fl = <<-1, -1, Nil>>
             ELSE fl = <<SetMin(Range(r[1])), SetMax(Range(r[1])), Nil>>
    /\ pc = "runLoop" => lastSegment = firstAndLast(DirEntries, TRUE)[2]

\* C20 witness: run has listed a directory whose oldest segment is gone
\* (segments 1 and 2) and holds 2 as the last id.
C20_Witness ==
    /\ pc = "runLoop"
    /\ dirSegs = {1, 2}
    /\ dirOther = {CheckpointName}
    /\ lastSegment = 2

\* C21: after watch(N) has returned normally, run returns nil at once when N is
\* MaxSegment, with no SegmentEnd call and no advance, and the worker stays
\* alive: unless quit is closed its next steps are the backoff and another run;
\* otherwise (always so when MaxSegment is -1) run calls SegmentEnd(N) and
\* advances to N+1.
C21_MaxSegmentEndsRun ==
    [][/\ (pc = "afterWatch" /\ pc' # pc) =>
             /\ currentSegment >= 0
             /\ IF currentSegment = MaxSegment
                THEN /\ pc' = "backoff" /\ err' = Nil
                     /\ segEnds' = segEnds /\ runLog' = runLog
                     /\ ~done' /\ openFiles' = {}
                ELSE /\ segEnds' = Append(segEnds, currentSegment)
                     /\ currentSegment' = currentSegment + 1
                     /\ pc' = "runLoop"
       /\ (pc = "backoff" /\ pc' # pc /\ ~quit) => (pc' = "mainLoop" /\ ~done')
       /\ (pc = "mainLoop" /\ pc' # pc /\ ~quit) => (pc' = "run" /\ ~done')]_vars

\* C21 witness: with MaxSegment 0 and no Stop request, run has returned nil
\* after the watch of segment 0, ended by the cut of segment 1.
C21_Witness ==
    /\ MaxSegment = 0
    /\ ~quit
    /\ pc = "backoff"
    /\ err = Nil
    /\ runLog # <<>>
    /\ runLog[Len(runLog)] = <<"rec", 0, 1>>
    /\ segEnds = <<>>

\* C22: in tail mode, a read tick whose readSegment ends with EOF leaves watch
\* in its select loop with the file open; watch ends with an error exactly when
\* readSegment, on a read tick or on the drain, returned an error other than
\* EOF, and then with that error, or when the listing of a segment tick failed,
\* and then with the listing error.
C22_TailErrors ==
    [][/\ (pc = "readReturn" /\ pc' # pc /\ tail /\ readCtx = "tick" /\ err = EOF) =>
             (pc' = "select" /\ openFiles' = openFiles /\ tickers' = tickers)
       /\ (pc = "readReturn" /\ pc' # pc /\ tail /\ err \notin {Nil, EOF}) =>
             (pc' = "backoff" /\ err' = err)
       /\ (InWatch /\ tail /\ pc' = "backoff") =>
             \/ pc = "readReturn" /\ err \notin {Nil, EOF} /\ err' = err
             \/ pc = "select" /\ "segment" \in tickers /\ err' = DirErr]_vars

\* C22 witness: a tailing watch is back in its select loop after a read tick
\* that dispatched a record and ended with EOF.
C22_Witness ==
    /\ pc = "select"
    /\ tail
    /\ rerr = EOF
    /\ rpos = 1
    /\ <<"rec", currentSegment, 1>> \in Range(runLog)

\* C23: in replay, watch returns nil after its readSegment call, whatever that
\* call returned; the only error a replay returns is the one of sizing the
\* segment.
C23_ReplayIgnoresErrors ==
    [][/\ (pc = "readReturn" /\ pc' # pc /\ ~tail) => (pc' = "afterWatch" /\ err' = Nil)
       /\ (~tail /\ pc' = "backoff") => (pc = "watch" /\ err' = StatErr)]_vars

\* C23 witness: a replay has returned nil, Stop not requested, from a segment
\* whose first record the reader rejects.
C23_Witness ==
    /\ pc = "afterWatch"
    /\ ~quit
    /\ ~TailMode(currentSegment, lastSegment)
    /\ Len(segs[currentSegment]) >= 1
    /\ segs[currentSegment][1].kind = "corrupt"

\* C24: with no Stop request and no error: watch starts the drain of segment N
\* only on a segment tick that finds a segment above N, and any other step out
\* of the select is a read tick that leaves the watch on N, and a tick that
\* leaves the watch in the select changes nothing of it; a drain that ends
\* with EOF makes watch return normally, without another read; and after such
\* a drain of N run calls SegmentEnd(N) and segment N+1 gets opened.
C24_DrainThenAdvance ==
    /\ [][/\ (pc = "select" /\ pc' # pc) =>
                /\ pc' = "readSegment" /\ currentSegment' = currentSegment
                /\ openFiles' = openFiles
                /\ readCtx' = "drain" => LastOnDisk > currentSegment
          /\ (pc = "select" /\ pc' = pc) =>
                UNCHANGED <<currentSegment, openFiles, tickers, rpos, readCtx, runLog, segEnds>>
          /\ (pc = "readReturn" /\ pc' # pc /\ readCtx = "drain" /\ err = EOF) =>
                (pc' = "afterWatch" /\ rpos = Len(segs[currentSegment]))]_vars
    /\ \A n \in SegIds :
          (pc = "readReturn" /\ readCtx = "drain" /\ err = EOF /\ currentSegment = n)
             ~> (/\ pc = "select" /\ currentSegment = n + 1 /\ openFiles = {n + 1}
                 /\ segEnds # <<>> /\ segEnds[Len(segEnds)] = n)

\* C24 witness: the watcher tails segment 1 after a drain of segment 0 that
\* dispatched its second record, and SegmentEnd(0).
C24_Witness ==
    /\ pc = "select"
    /\ currentSegment = 1
    /\ segEnds = <<0>>
    /\ \E i \in 1..Len(runLog) :
          /\ runLog[i] = <<"rec", 0, 2>>
          /\ i + 1 <= Len(runLog)
          /\ runLog[i + 1] = <<"end", 0, 0>>

\* C25: when the segment ids of the directory have a gap (and no other entry
\* of the directory has a name that parses as an id), run's entry returns
\* the listing error and a segment tick of watch returns it (the watch never
\* moves on to a drain); every return of a listing error, at run's entry or on
\* a segment tick, ends the run without a SegmentEnd call and with the segment
\* file closed; the main loop then waits for the backoff, and unless Stop is
\* requested calls run again, whose entry lists the directory as it is then.
NonContiguous ==
    /\ dirOther = {CheckpointName}
    /\ \E a, b \in dirSegs : a + 1 < b /\ \A c \in dirSegs : ~(a < c /\ c < b)
C25_ListingErrorEndsRun ==
    [][/\ (pc = "run" /\ pc' # pc /\ NonContiguous) =>
             (pc' = "backoff" /\ err' = DirErr)
       /\ (pc = "select" /\ pc' # pc /\ NonContiguous) =>
             \/ pc' = "backoff" /\ err' = DirErr
             \/ pc' = "readSegment" /\ readCtx' = "tick"
             \/ quit /\ pc' = "afterWatch"
       /\ (pc # "backoff" /\ pc' = "backoff" /\ err' = DirErr) =>
             /\ pc \in {"run", "select"}
             /\ segEnds' = segEnds
             /\ openFiles' = {}
             /\ tickers' = {}
       /\ (pc = "backoff" /\ pc' # pc) =>
             (pc' = "mainLoop" \/ (quit /\ pc' = "exited"))
       /\ (pc = "mainLoop" /\ pc' # pc /\ ~quit) => pc' = "run"
       /\ (pc = "run" /\ pc' = "runLoop") =>
             /\ ~NonContiguous
             /\ lastSegment' = firstAndLast(DirEntries, TRUE)[2]]_vars

\* C25 witness: a run called again after a failed one has ended on a segment
\* tick that met a directory with a gap; no SegmentEnd call was made.
C25_Witness ==
    /\ pc = "backoff"
    /\ err = DirErr
    /\ NonContiguous
    /\ runs = 2
    /\ failedAt # NoFail
    /\ segEnds = <<>>

\* C26: a readSegment step that takes a record the codec cannot decode adds
\* exactly one to record_decode_fails, makes no consumer call and dispatches
\* nothing, and ends the readSegment call with the decode error;
\* record_decode_fails changes in no other step; no record that fails to
\* decode is ever dispatched; and in tail mode watch returns the decode error,
\* which ends the run.
UndecodableNext ==
    /\ pc = "readSegment"
    /\ ~quit
    /\ rerr # CorruptErr
    /\ rpos < Len(segs[currentSegment])
    /\ segs[currentSegment][rpos + 1].kind = "undecodable"
C26_DecodeFailure ==
    /\ [](\A i \in 1..Len(runLog) :
             runLog[i][1] = "rec" => segs[runLog[i][2]][runLog[i][3]].kind = "ok")
    /\ [][/\ (UndecodableNext /\ rpos' # rpos) =>
                /\ recordDecodeFails' = recordDecodeFails + 1
                /\ calls' = calls
                /\ runLog' = runLog
                /\ pc' = "readReturn"
                /\ err' = DecodeErr
          /\ (recordDecodeFails' # recordDecodeFails) =>
                (UndecodableNext /\ recordDecodeFails' = recordDecodeFails + 1)
          /\ (pc = "readReturn" /\ pc' # pc /\ tail /\ err = DecodeErr) =>
                (pc' = "backoff" /\ err' = DecodeErr /\ openFiles' = {})]_vars

\* C26 witness: a run has failed with the decode error on the first record of a
\* segment that holds a second record; one decode failure was counted and
\* nothing of the segment was dispatched.
C26_Witness ==
    /\ pc = "backoff"
    /\ err = DecodeErr
    /\ recordDecodeFails = 1
    /\ \E f \in failedAt :
          /\ f.n = 0
          /\ Len(segs[f.seg]) = 2
          /\ segs[f.seg][1].kind = "undecodable"

\* C27: between two states of one run invocation currentSegment does not
\* decrease; and every entry of run that gets a listing sets lastSegment and
\* currentSegment to the last segment id the directory holds at that moment,
\* whatever segment the run before had failed on.
C27_MonotoneWithinRun ==
    [][/\ (InRun /\ InRun') => currentSegment' >= currentSegment
       /\ (pc = "run" /\ pc' = "runLoop") =>
             (currentSegment' = LastOnDisk /\ lastSegment' = LastOnDisk)]_vars

\* C27 witness: the run before failed on segment 0 and this run tails
\* segment 2, with segment 1 never visited.
C27_Witness ==
    /\ pc = "select"
    /\ runs = 2
    /\ currentSegment = 2
    /\ metricCurrentSegment = 2
    /\ failedAt = {[seg |-> 0, n |-> 0]}

\* C28: in a run that follows a run failed on segment N and that has found
\* last = M > N, every record dispatched belongs to a segment with id M or
\* above; more generally no run dispatches a record of, or calls SegmentEnd
\* for, a segment below the last id it found at its entry.
C28_SkippedNeverDispatched ==
    /\ \A f \in failedAt :
          (InRun /\ lastSegment > f.seg) =>
             \A i \in 1..Len(runLog) : runLog[i][1] = "rec" => runLog[i][2] >= lastSegment
    /\ InRun => \A i \in 1..Len(runLog) : runLog[i][2] >= lastSegment

\* C28 witness: the failed run left a record of segment 0 undispatched,
\* segment 1 holds a record, and the run that followed dispatches from
\* segment 2.
C28_Witness ==
    /\ InRun
    /\ lastSegment = 2
    /\ \E f \in failedAt : f.seg = 0 /\ f.n < Len(segs[0])
    /\ Len(segs[1]) >= 1
    /\ <<"rec", 2, 1>> \in Range(runLog)

\* C29: a run that has returned, with or without an error, is followed by
\* another run invocation unless Stop is requested (as long as the bound on the
\* number of runs allows one); run is invoked only from the head of the main
\* loop, which is reached again only through the backoff wait, in which no
\* SegmentEnd or record is delivered; and once Stop is requested during the
\* backoff, no run is invoked and the worker exits.
C29_RetryAfterBackoff ==
    /\ [][/\ (pc # "run" /\ pc' = "run") => (pc = "mainLoop" /\ ~quit)
          /\ (pc = "mainLoop" /\ pc' # pc) => pc' = (IF quit THEN "exited" ELSE "run")
          /\ (pc # "mainLoop" /\ pc' = "mainLoop") => pc \in {"idle", "backoff"}
          /\ (InRun /\ ~InRun') => pc' = "backoff"
          /\ (pc = "run" /\ pc' # pc) => pc' \in {"runLoop", "backoff"}
          /\ (pc \in {"backoff", "mainLoop"} /\ quit) => pc' \in {pc, "mainLoop", "exited"}
          /\ (pc \in {"backoff", "mainLoop"}) =>
                (runs' = runs /\ segEnds' = segEnds /\ runLog' = runLog)]_vars
    /\ (pc = "backoff" /\ runs < MaxRuns) ~> (pc = "run" \/ quit)
    /\ (pc = "backoff" /\ quit) ~> (pc = "exited")

\* C29 witness: with no Stop request, a second run is under way after the
\* first one returned normally at the MaxSegment hook.
C29_Witness ==
    /\ pc = "select"
    /\ runs = 2
    /\ ~quit
    /\ MaxSegment = 0
    /\ failedAt = NoFail
    /\ currentSegment = 1

\* C30: in every reachable state records_read equals the number of records the
\* reader's Next() has handed out and equals the number of decodeAndDispatch
\* calls.
C30_ReadCountsMatch ==
    /\ recordsRead = readerHandedOut
    /\ recordsRead = dispatchCalls

\* C31: no ticker is active outside a watch call: whenever the worker is not
\* between watch's ticker creation and watch's return, the set of active
\* tickers is empty, whichever way watch returned; in a replay only the read
\* ticker is active, and the only steps out of the select are a read tick and
\* the quit case.
C31_TickersStopped ==
    /\ [](tickers # {} => InWatch)
    /\ []((InWatch /\ ~tail) => tickers = {"read"})
    /\ []((InWatch /\ tail) => tickers = AllTickers)
    /\ [][(InWatch /\ ~InWatch') => tickers' = {}]_vars
    /\ [][(pc = "select" /\ ~tail /\ pc' # pc) =>
             \/ pc' = "readSegment" /\ readCtx' = "tick"
             \/ quit /\ pc' = "afterWatch"]_vars

\* C31 witness: a replay has returned after its read, and a later tailing
\* watch of the same worker has returned with a reader error; no ticker is
\* active.
C31_Witness ==
    /\ pc = "backoff"
    /\ err = CorruptErr
    /\ tickers = {}
    /\ segEnds = <<0>>
    /\ lastSegment = -1
    /\ runs = 1

\* C32: between records, that is whenever decodeAndDispatch is not running,
\* the watcher holds no decoded-record container outside the pool.
C32_PoolBalanced == pc # "dispatch" => recordsHeld = 0

\* C33: a watch of segment N that ends with an error (a reader, codec or
\* consumer error of a tailing read, a listing error, a failed open or a failed
\* getSegmentSize) ends the run in the same step with that error: no
\* SegmentEnd call is made, and the failed run has neither ended segment N nor
\* opened a segment above N.
C33_WatchErrorEndsRun ==
    /\ [](\A f \in failedAt :
             pc = "backoff" =>
                /\ err # Nil
                /\ <<"end", f.seg, 0>> \notin Range(runLog)
                /\ \A i \in 1..Len(runLog) : runLog[i][2] <= f.seg)
    /\ [][/\ (pc = "readReturn" /\ pc' # pc /\ tail /\ err \notin {Nil, EOF}) =>
                /\ pc' = "backoff" /\ err' = err
                /\ segEnds' = segEnds /\ runLog' = runLog
                /\ failedAt' # NoFail /\ \A f \in failedAt' : f.seg = currentSegment
          /\ (pc = "watch" /\ pc' # pc /\ currentSegment \notin dirSegs) =>
                /\ pc' = "backoff" /\ err' = OpenErr
                /\ segEnds' = segEnds /\ runLog' = runLog
          /\ (InWatch /\ pc' = "backoff") =>
                (err' # Nil /\ segEnds' = segEnds /\ runLog' = runLog /\ openFiles' = {})]_vars

\* C33 witness: the run has failed with a reader error on segment 1, after
\* SegmentEnd(0); segment 2 exists and was not opened.
C33_Witness ==
    /\ pc = "backoff"
    /\ err = CorruptErr
    /\ failedAt # NoFail
    /\ \A f \in failedAt : f.seg = 1
    /\ segEnds = <<0>>
    /\ 2 \in dirSegs

\* C34: from Start() on, every watch call of run has tail = true: during a run
\* currentSegment is never below the lastSegment read at the run's entry,
\* lastSegment does not change within the run, and no state of a watch call
\* has tail = false.
C34_AlwaysTail ==
    /\ [](tail /\ (InRun => currentSegment >= lastSegment))
    /\ [][/\ (InRun /\ InRun') => lastSegment' = lastSegment
          /\ (pc = "runLoop" /\ pc' = "watch") => tail']_vars

\* C34 witness: a watch with tail = true on segment 1, which is sealed
\* (segment 2 exists), in a run that started on segment 0.
C34_Witness ==
    /\ pc = "select"
    /\ tail
    /\ currentSegment = 1
    /\ lastSegment = 0
    /\ LastOnDisk = 2

\* C35: within one run the segments passed to watch are the consecutive ids
\* from the run's initial last on: the k-th watch call of the run that opens
\* its segment is on lastSegment + k - 1, and every change of currentSegment
\* within the run is an increment by one, whatever the directory's last id is.
OpensOfRun == SelectSeq(runLog, LAMBDA e : e[1] = "open")
C35_ConsecutiveSegments ==
    /\ [](InRun => \A k \in 1..Len(OpensOfRun) : OpensOfRun[k][2] = lastSegment + k - 1)
    /\ [][(InRun /\ InRun' /\ currentSegment' # currentSegment) =>
             currentSegment' = currentSegment + 1]_vars

\* C35 witness: the run started on segment 0 and drained it while the
\* directory's last id was already 2; the next segment it has opened is 1.
C35_Witness ==
    /\ pc = "select"
    /\ LastOnDisk = 2
    /\ Len(segs[1]) = 0
    /\ Len(segs[2]) >= 1
    /\ OpensOfRun = <<<<"open", 0, 0>>, <<"open", 1, 0>>>>

\* C36: once quit is closed, no step starts the dispatch of a record (no
\* record event is logged, records_read and the number of decodeAndDispatch
\* calls stay as they are), so the only consumer calls still made are those of
\* the record being dispatched when quit was closed; and decodeAndDispatch
\* returns only when it has made every ConsumeSeries and ConsumeEntries call of
\* its record, quit closed or not.
C36_AtMostOneAfterClose ==
    [][/\ (quit /\ runLog' # runLog) =>
             (runLog' = <<>> \/ runLog'[Len(runLog')][1] # "rec")
       /\ quit => (recordsRead' = recordsRead /\ dispatchCalls' = dispatchCalls)
       /\ (quit /\ pc # "dispatch") => (pc' # "dispatch" /\ calls' = calls)
       /\ (pc = "dispatch" /\ calls' # calls /\ calls' # <<>>) =>
             (pc' = "dispatch" /\ Len(calls') = Len(calls) + 1)
       /\ (pc = "dispatch" /\ pc' # pc) =>
             Len(calls) = CurRec.ns + CurRec.ne]_vars

\* C36 witness: quit is closed, the dispatch of a record with several consumer
\* calls has run to its end, and the segment holds a further record that the
\* reader has not handed out.
C36_Witness ==
    /\ quit
    /\ pc = "dispatch"
    /\ Len(calls) >= 2
    /\ Len(calls) = CurRec.ns + CurRec.ne
    /\ rpos < Len(segs[currentSegment])

\* C37: once Stop() has returned, no step invokes a consumer callback, changes
\* a metric (current segment, records read, decode failures, watchers running)
\* or moves the worker; and the step with which Stop() returns changes no
\* metric but watchers-running, which it decrements by one, and invokes no
\* callback.
C37_QuietAfterStop ==
    [][/\ stopPc = "returned" =>
             /\ UNCHANGED <<calls, segEnds, runLog, metricVars, watchersRunning>>
             /\ UNCHANGED <<pc, openFiles, tickers>>
       /\ (stopPc # "returned" /\ stopPc' = "returned") =>
             /\ watchersRunning' = watchersRunning - 1
             /\ UNCHANGED <<calls, segEnds, runLog, metricVars>>]_vars

\* C37 witness: Stop has returned on a worker that had read records, called
\* SegmentEnd and moved its current-segment gauge, while the writer's segment
\* can still take a record.
C37_Witness ==
    /\ stopPc = "returned"
    /\ recordsRead >= 1
    /\ segEnds # <<>>
    /\ metricCurrentSegment >= 1
    /\ Len(segs[LastOnDisk]) < MaxRecs

\* C38: the watcher never holds more than one open segment file, and an open
\* file is that of run's currentSegment; a SegmentEnd call and the open of a
\* segment are made with no file open (the file of segment N is closed before
\* SegmentEnd(N) and before N+1 is opened); and every step that ends a run,
\* with an error or without, leaves no file open.
C38_OneFileOfCurrentSegment ==
    /\ [](openFiles \in {{}, {currentSegment}})
    /\ [][/\ (segEnds' # segEnds) =>
                (openFiles = {} /\ openFiles' = {} /\ segEnds' = Append(segEnds, currentSegment))
          /\ (openFiles' # openFiles /\ openFiles' # {}) =>
                (openFiles = {} /\ pc = "watch" /\ openFiles' = {currentSegment})
          /\ (pc # "backoff" /\ pc' = "backoff") => openFiles' = {}]_vars

\* C38 witness: after SegmentEnd(0) the watcher holds the file of segment 1 and
\* no other, in the second run of the worker.
C38_Witness ==
    /\ openFiles = {1}
    /\ currentSegment = 1
    /\ segEnds # <<>>
    /\ segEnds[Len(segEnds)] = 0
    /\ runs = 2

\* C39: Stop() returns only on a started watcher: as long as Start() has not
\* been called done is open, so a Stop() that has closed quit stays blocked in
\* its receive; and on a started watcher a Stop() waiting for done eventually
\* returns.
C39_StopNeedsStart ==
    /\ [](~started => (~done /\ stopPc # "returned" /\ pc = "idle"))
    /\ [][(~started /\ ~started' /\ stopPc = "waiting") => stopPc' = "waiting"]_vars
    /\ (started /\ stopPc = "waiting") ~> (stopPc = "returned")

\* C39 witness: Stop() was called on a watcher that was never started: quit is
\* closed, done is not, and Stop is blocked.
C39_Witness ==
    /\ ~started
    /\ stopPc = "waiting"
    /\ quit
    /\ ~done
    /\ watchersRunning = 0

====
